---- MODULE Spec2Model ----
(***************************************************************************)
(* A model of the gandi DNS-01 solver of cert-manager-webhook-gandi        *)
(* (src/main.go): the two handlers Present and CleanUp, the credential     *)
(* lookup, the domain splitting, and the LiveDNS records they act on.      *)
(*                                                                         *)
(* A Go string is a sequence of one-character strings, so that the string  *)
(* functions of the code (TrimSuffix, Trim, Split, Join) are computed and  *)
(* not assumed.                                                            *)
(***************************************************************************)
EXTENDS Integers, Sequences, FiniteSets, TLC

DOT == "."
DQ == "\""

\* GandiMinTtl (main.go:22)
GandiMinTtl == 300

(***************************************************************************)
(* Bounds of the model.                                                    *)
(***************************************************************************)
\* number of Present/CleanUp invocations the webhook server dispatches
NProc == 2
\* SplitSpec: most labels of a resolved zone, most labels of the entry
MaxZoneLabels == 3
MaxEntryLabels == 2

(***************************************************************************)
(* package strings                                                         *)
(***************************************************************************)
HasSuffix(s, suffix) ==
    /\ Len(suffix) <= Len(s)
    /\ SubSeq(s, Len(s) - Len(suffix) + 1, Len(s)) = suffix

\* strings.TrimSuffix: s without the suffix when it ends with it, else s
TrimSuffix(s, suffix) ==
    IF HasSuffix(s, suffix) THEN SubSeq(s, 1, Len(s) - Len(suffix)) ELSE s

RECURSIVE TrimLeft(_, _)
TrimLeft(s, c) ==
    IF s # <<>> /\ Head(s) = c THEN TrimLeft(Tail(s), c) ELSE s

RECURSIVE TrimRight(_, _)
TrimRight(s, c) ==
    IF s # <<>> /\ s[Len(s)] = c THEN TrimRight(SubSeq(s, 1, Len(s) - 1), c) ELSE s

\* strings.Trim(s, "."): every leading and trailing cut character removed
Trim(s, c) == TrimRight(TrimLeft(s, c), c)

\* strings.Split(s, "."): the pieces between the separators, empty ones kept
RECURSIVE Split(_, _)
Split(s, c) ==
    IF \E i \in 1..Len(s) : s[i] = c
    THEN LET i == CHOOSE j \in 1..Len(s) : s[j] = c /\ \A k \in 1..(j - 1) : s[k] # c
         IN  <<SubSeq(s, 1, i - 1)>> \o Split(SubSeq(s, i + 1, Len(s)), c)
    ELSE <<s>>

\* strings.Join(parts, "."), also with the empty separator (sep = <<>>)
RECURSIVE Join(_, _)
Join(parts, sep) ==
    IF parts = <<>> THEN <<>>
    ELSE IF Len(parts) = 1 THEN parts[1]
    ELSE parts[1] \o sep \o Join(Tail(parts), sep)

(***************************************************************************)
(* Domain splitting                                                        *)
(***************************************************************************)
\* getDomainAndEntry (main.go:226-232)
getDomainAndEntry(ch) ==
    LET entry == TrimSuffix(TrimSuffix(ch.fqdn, ch.zone), <<DOT>>)
        domain == TrimSuffix(ch.zone, <<DOT>>)
    IN  [entry |-> entry, domain |-> domain]

\* a plausible slip: the labels of the zone before the root put first
extractRootAndSubDomainSwapped(fqdn, entry) ==
    LET parts == Split(Trim(fqdn, DOT), DOT)
        n == Len(parts)
    IN  IF n < 2
        THEN [panic |-> TRUE, root |-> <<>>, sub |-> <<>>]
        ELSE [panic |-> FALSE,
              root |-> parts[n - 1] \o <<DOT>> \o parts[n],
              sub |-> Join(SubSeq(parts, 1, n - 2) \o <<Trim(entry, DOT)>>, <<DOT>>)]

\* a plausible slip: the root taken as the last label alone
extractRootAndSubDomainOneLabel(fqdn, entry) ==
    LET parts == Split(Trim(fqdn, DOT), DOT)
        n == Len(parts)
    IN  IF n < 2
        THEN [panic |-> TRUE, root |-> <<>>, sub |-> <<>>]
        ELSE [panic |-> FALSE,
              root |-> parts[n],
              sub |-> Join(<<Trim(entry, DOT)>> \o SubSeq(parts, 1, n - 2), <<DOT>>)]

\* a plausible slip: the record named by the zone's labels alone, the entry dropped
extractRootAndSubDomainNoEntry(fqdn, entry) ==
    LET parts == Split(Trim(fqdn, DOT), DOT)
        n == Len(parts)
    IN  IF n < 2
        THEN [panic |-> TRUE, root |-> <<>>, sub |-> <<>>]
        ELSE [panic |-> FALSE,
              root |-> parts[n - 1] \o <<DOT>> \o parts[n],
              sub |-> Join(SubSeq(parts, 1, n - 2), <<DOT>>)]

\* extractRootAndSubDomain (main.go:81-86); parts[len(parts)-2] panics
\* (index out of range) when the domain has fewer than two labels
extractRootAndSubDomain(fqdn, entry) ==
    LET parts == Split(Trim(fqdn, DOT), DOT)
        n == Len(parts)
    IN  IF n < 2
        THEN [panic |-> TRUE, root |-> <<>>, sub |-> <<>>]
        ELSE [panic |-> FALSE,
              root |-> parts[n - 1] \o <<DOT>> \o parts[n],
              sub |-> Join(<<Trim(entry, DOT)>> \o SubSeq(parts, 1, n - 2), <<DOT>>)]

\* Present, main.go:116-119: the (root, subdomain) Present acts on
PresentName(ch) ==
    LET de == getDomainAndEntry(ch)
    IN  extractRootAndSubDomain(de.domain, de.entry)

\* CleanUp, main.go:172-174: the (root, subdomain) CleanUp acts on
CleanUpName(ch) ==
    LET de == getDomainAndEntry(ch)
    IN  extractRootAndSubDomain(de.domain, de.entry)

(***************************************************************************)
(* Challenge requests, per-issuer configuration, the secret store          *)
(***************************************************************************)
\* a fully-qualified name: the labels dot-joined, with the trailing dot
FQ(labels) == Join(labels, <<DOT>>) \o <<DOT>>

K1 == <<"k">>
K2 == <<"m">>
Keys == {K1, K2}

ZoneS == FQ(<< <<"s">>, <<"e">>, <<"c">> >>)
FqdnX == FQ(<< <<"_">>, <<"s">>, <<"e">>, <<"c">> >>)
FqdnY == FQ(<< <<"_">>, <<"w">>, <<"s">>, <<"e">>, <<"c">> >>)

\* ChallengeRequest.Config: absent (nil), bytes that are no JSON object of the
\* schema, or {"apiKeySecretRef": {"name": .., "key": ..}}
NilConfig == [raw |-> "nil", name |-> "", key |-> ""]
MalformedConfig == [raw |-> "malformed", name |-> "", key |-> ""]
RefConfig(name, key) == [raw |-> "object", name |-> name, key |-> key]

\* the Secrets the Kubernetes API serves: (namespace, name) -> keys of .Data
Secrets == (<<"ns", "gandi-credentials">> :> {"api-token"})

GoodConfig == RefConfig("gandi-credentials", "api-token")

Challenge(zone, fqdn, key, cfg) ==
    [ns |-> "ns", zone |-> zone, fqdn |-> fqdn, key |-> key, cfg |-> cfg]

OkChallenges ==
    { Challenge(ZoneS, FqdnX, K1, GoodConfig),
      Challenge(ZoneS, FqdnX, K2, GoodConfig),
      Challenge(ZoneS, FqdnY, K1, GoodConfig) }

BadChallenges ==
    { Challenge(ZoneS, FqdnX, K1, cfg) :
        cfg \in { NilConfig, MalformedConfig,
                  RefConfig("no-such-secret", "api-token"),
                  RefConfig("gandi-credentials", "no-such-key") } }

Challenges == OkChallenges \cup BadChallenges

\* loadConfig (main.go:213-224)
loadConfig(cfgJSON) ==
    IF cfgJSON.raw = "nil"
    THEN [err |-> "", name |-> "", key |-> ""]
    ELSE IF cfgJSON.raw = "malformed"
    THEN [err |-> "error decoding solver config", name |-> "", key |-> ""]
    ELSE [err |-> "", name |-> cfgJSON.name, key |-> cfgJSON.key]

\* a plausible slip: the `ok` of the map read is not tested
getApiKeyUnchecked(cfg, namespace) ==
    IF <<namespace, cfg.name>> \notin DOMAIN Secrets
    THEN [err |-> "unable to get secret", msg |-> <<cfg.name>>]
    ELSE [err |-> "", msg |-> <<>>]

\* getApiKey (main.go:235-253); msg holds the arguments of the error text in
\* the order the code passes them
getApiKey(cfg, namespace) ==
    IF <<namespace, cfg.name>> \notin DOMAIN Secrets
    THEN [err |-> "unable to get secret", msg |-> <<cfg.name>>]
    ELSE IF cfg.key \notin Secrets[<<namespace, cfg.name>>]
    THEN [err |-> "key not found", msg |-> <<cfg.key, cfg.name, namespace>>]
    ELSE [err |-> "", msg |-> <<>>]

(***************************************************************************)
(* The LiveDNS records                                                     *)
(***************************************************************************)
\* the provider's framing of a TXT value
Quote(v) == <<DQ>> \o v \o <<DQ>>

\* what the provider stores for the values of a create or update call
Stored(values) == [i \in DOMAIN values |-> Quote(values[i])]

NameOf(split) == <<split.root, split.sub>>

\* the (root, subdomain) pairs the challenges name
Names == {NameOf(PresentName(ch)) : ch \in Challenges}
            \cup {NameOf(CleanUpName(ch)) : ch \in Challenges}

\* the rrset values a record may hold before the first invocation; <<>> is
\* the absent record
InitValues == { <<>>, <<Quote(K1), Quote(K2)>> }

Procs == 1..NProc

NoCalls == <<>>

VARIABLES
    rec,    \* the TXT rrset at each (root, subdomain): its values, <<>> absent
    inv,    \* the invocations: position, request, calls issued, result
    last,   \* per name, the invocation that finished last (0: none)
    sin,    \* SplitSpec: the (zone, fqdn) under test
    sout,   \* SplitSpec: what the split functions returned
    spc     \* SplitSpec: position

vars == <<rec, inv, last, sin, sout, spc>>

NoName == << <<>>, <<>> >>

IdleInv ==
    [pc |-> "idle", op |-> "", ch |-> Challenge(<<>>, <<>>, <<>>, NilConfig),
     name |-> NoName, err |-> "", cause |-> "", ref |-> <<>>,
     calls |-> NoCalls, pre |-> <<>>, post |-> <<>>,
     alone |-> TRUE, prev |-> 0]

NoSplit ==
    [done |-> FALSE, entry |-> <<>>, domain |-> <<>>,
     panic |-> FALSE, root |-> <<>>, sub |-> <<>>]

\* zl, el: the labels the zone and the entry were built from; dot: whether
\* a dot separates the entry from the zone in the FQDN
NoInput == [zone |-> <<>>, fqdn |-> <<>>, zl |-> <<>>, el |-> <<>>, dot |-> FALSE]

Init ==
    /\ rec \in [Names -> InitValues]
    /\ inv = [p \in Procs |-> IdleInv]
    /\ last = [n \in Names |-> 0]
    /\ sin = NoInput
    /\ sout = [present |-> NoSplit, cleanup |-> NoSplit]
    /\ spc = "off"

Active(p) == inv[p].pc \in {"lookup", "create", "update", "delete"}

\* a provider call as the client issues it, with its outcome; `seen` is the
\* rrset the provider held when the call arrived
Call(fn, name, ttl, values, res, seen) ==
    [fn |-> fn, root |-> name[1], name |-> name[2], type |-> "TXT",
     ttl |-> ttl, values |-> values, res |-> res, seen |-> seen]

\* the handler returns before any provider call (main.go:97-107, 153-163)
Rejected(p, op, ch, err, cause, ref) ==
    /\ inv' = [inv EXCEPT ![p] = [IdleInv EXCEPT !.pc = "done", !.op = op, !.ch = ch,
                                     !.err = err, !.cause = cause, !.ref = ref]]
    /\ UNCHANGED <<rec, last>>

\* the handler has its client and its (root, subdomain) and goes on to the lookup
Admitted(p, op, ch, split) ==
    LET nm == NameOf(split)
        others == {q \in Procs : q # p /\ Active(q) /\ inv[q].name = nm}
    IN  /\ inv' = [q \in Procs |->
                     IF q = p
                     THEN [IdleInv EXCEPT !.pc = IF split.panic THEN "panic" ELSE "lookup",
                                          !.op = op, !.ch = ch, !.name = nm,
                                          !.pre = IF split.panic THEN <<>> ELSE rec[nm],
                                          !.alone = (others = {}),
                                          !.prev = IF split.panic THEN 0 ELSE last[nm]]
                     ELSE IF q \in others THEN [inv[q] EXCEPT !.alone = FALSE]
                     ELSE inv[q]]
        /\ UNCHANGED <<rec, last>>

\* invocations take the slots in order
Free(p) == inv[p].pc = "idle" /\ (IF p = 1 THEN TRUE ELSE inv[p - 1].pc # "idle")

\* the handler returns `err` after its last call
Return(p, call, err) ==
    /\ inv' = [inv EXCEPT ![p].pc = "done", ![p].err = err,
                          ![p].calls = Append(@, call),
                          ![p].post = rec'[inv[p].name]]
    /\ last' = [last EXCEPT ![inv[p].name] = p]

\* Present, main.go:93-122
Present(p, ch) ==
    /\ Free(p)
    /\ UNCHANGED <<sin, sout, spc>>
    /\ LET cfg == loadConfig(ch.cfg)
           apiKey == getApiKey(cfg, ch.ns)
       IN  IF cfg.err # ""
           THEN Rejected(p, "Present", ch, "unable to load config", cfg.err, <<>>)
           ELSE IF apiKey.err # ""
           THEN Rejected(p, "Present", ch, "unable to get API key", apiKey.err, apiKey.msg)
           ELSE Admitted(p, "Present", ch, PresentName(ch))

\* a plausible slip: only the first value of the rrset is compared
ValuesMatchFirst(rrset, key) == rrset[1] = <<DQ>> \o key \o <<DQ>>

\* main.go:132: strings.Join(record.RrsetValues, "") against "\"" + ch.Key + "\""
ValuesMatch(rrset, key) == Join(rrset, <<>>) = <<DQ>> \o key \o <<DQ>>

\* GetDomainRecordByNameAndType: the rrset is returned, or an error: 404 when
\* there is none, or any other failure of the request
LookupOutcomes(rrset) ==
    IF rrset = <<>> THEN {"notfound", "failed"} ELSE {"found", "failed"}

\* Present, main.go:124-126 and 131-133, 138-140: the lookup, and what the
\* handler decides from it
PresentLookup(p) ==
    /\ inv[p].pc = "lookup" /\ inv[p].op = "Present"
    /\ UNCHANGED <<rec, sin, sout, spc>>
    /\ \E res \in LookupOutcomes(rec[inv[p].name]) :
         LET call == Call("lookup", inv[p].name, 0, <<>>, res, rec[inv[p].name])
         IN  IF res # "found"
             THEN /\ inv' = [inv EXCEPT ![p].pc = "create", ![p].calls = Append(@, call)]
                  /\ UNCHANGED last
             ELSE IF ~ValuesMatch(rec[inv[p].name], inv[p].ch.key)
             THEN /\ inv' = [inv EXCEPT ![p].pc = "update", ![p].calls = Append(@, call)]
                  /\ UNCHANGED last
             ELSE Return(p, call, "")

\* CreateDomainRecord at the provider: 201 when there was no rrset, 200 when the
\* rrset already holds the same values, 409 when it holds others; or the
\* request fails
CreateOutcomes(rrset, values) ==
    IF rrset = <<>> \/ rrset = Stored(values) THEN {"ok", "failed"} ELSE {"failed"}

\* Present, main.go:127-130
PresentCreate(p) ==
    /\ inv[p].pc = "create"
    /\ UNCHANGED <<sin, sout, spc>>
    /\ LET nm == inv[p].name
           values == <<inv[p].ch.key>>
       IN  \E res \in CreateOutcomes(rec[nm], values) :
             /\ rec' = IF res = "ok" THEN [rec EXCEPT ![nm] = Stored(values)] ELSE rec
             /\ Return(p, Call("create", nm, GandiMinTtl, values, res, rec[nm]),
                       IF res = "ok" THEN "" ELSE "unable to create TXT record")

\* Present, main.go:134-137; the provider replaces the rrset, or the request fails
PresentUpdate(p) ==
    /\ inv[p].pc = "update"
    /\ UNCHANGED <<sin, sout, spc>>
    /\ LET nm == inv[p].name
           values == <<inv[p].ch.key>>
       IN  \E res \in {"ok", "failed"} :
             /\ rec' = IF res = "ok" THEN [rec EXCEPT ![nm] = Stored(values)] ELSE rec
             /\ Return(p, Call("update", nm, GandiMinTtl, values, res, rec[nm]),
                       IF res = "ok" THEN "" ELSE "unable to update TXT record")

\* CleanUp, main.go:149-177
CleanUp(p, ch) ==
    /\ Free(p)
    /\ UNCHANGED <<sin, sout, spc>>
    /\ LET cfg == loadConfig(ch.cfg)
           apiKey == getApiKey(cfg, ch.ns)
       IN  IF cfg.err # ""
           THEN Rejected(p, "CleanUp", ch, "unable to load config", cfg.err, <<>>)
           ELSE IF apiKey.err # ""
           THEN Rejected(p, "CleanUp", ch, "unable to get API key", apiKey.err, apiKey.msg)
           ELSE Admitted(p, "CleanUp", ch, CleanUpName(ch))

\* CleanUp, main.go:179-182, 189
CleanUpLookup(p) ==
    /\ inv[p].pc = "lookup" /\ inv[p].op = "CleanUp"
    /\ UNCHANGED <<rec, sin, sout, spc>>
    /\ \E res \in LookupOutcomes(rec[inv[p].name]) :
         LET call == Call("lookup", inv[p].name, 0, <<>>, res, rec[inv[p].name])
         IN  IF res # "found"
             THEN Return(p, call, "")
             ELSE /\ inv' = [inv EXCEPT ![p].pc = "delete", ![p].calls = Append(@, call)]
                  /\ UNCHANGED last

\* CleanUp, main.go:183-189; the provider removes the rrset, or the request fails
CleanUpDelete(p) ==
    /\ inv[p].pc = "delete"
    /\ UNCHANGED <<sin, sout, spc>>
    /\ LET nm == inv[p].name
       IN  \E res \in {"ok", "failed"} :
             /\ rec' = IF res = "ok" THEN [rec EXCEPT ![nm] = <<>>] ELSE rec
             /\ Return(p, Call("delete", nm, 0, <<>>, res, rec[nm]),
                       IF res = "ok" THEN "" ELSE "unable to delete TXT record")

Next ==
    \/ \E p \in Procs, ch \in Challenges : Present(p, ch)
    \/ \E p \in Procs : PresentLookup(p)
    \/ \E p \in Procs : PresentCreate(p)
    \/ \E p \in Procs : PresentUpdate(p)
    \/ \E p \in Procs, ch \in Challenges : CleanUp(p, ch)
    \/ \E p \in Procs : CleanUpLookup(p)
    \/ \E p \in Procs : CleanUpDelete(p)

Spec == Init /\ [][Next]_vars

(***************************************************************************)
(* The domain splitting on its own: every well-formed zone of up to        *)
(* MaxZoneLabels labels and every FQDN that ends with it, split as Present  *)
(* and as CleanUp split it.                                                *)
(***************************************************************************)
Labels == { <<"a">>, <<"b">> }

LabelSeqs(lo, hi) == UNION { [1..n -> Labels] : n \in lo..hi }

SplitInput(zl, el, dot) ==
    [zone |-> FQ(zl),
     fqdn |-> Join(el, <<DOT>>) \o (IF dot THEN <<DOT>> ELSE <<>>) \o FQ(zl),
     zl |-> zl, el |-> el, dot |-> dot]

\* an FQDN has no empty label: the dot needs an entry before it
SplitShapes ==
    { sh \in LabelSeqs(1, MaxZoneLabels) \X LabelSeqs(0, MaxEntryLabels) \X BOOLEAN :
        sh[2] # <<>> \/ ~sh[3] }

SplitInputs == { SplitInput(sh[1], sh[2], sh[3]) : sh \in SplitShapes }

SplitInit ==
    /\ rec = [n \in Names |-> <<>>]
    /\ inv = [p \in Procs |-> IdleInv]
    /\ last = [n \in Names |-> 0]
    /\ sin \in SplitInputs
    /\ sout = [present |-> NoSplit, cleanup |-> NoSplit]
    /\ spc = "on"

SplitChallenge == Challenge(sin.zone, sin.fqdn, K1, GoodConfig)

SplitResult(de, split) ==
    [done |-> TRUE, entry |-> de.entry, domain |-> de.domain,
     panic |-> split.panic, root |-> split.root, sub |-> split.sub]

\* Present, main.go:116-119, on the challenge under test
PresentSplit ==
    /\ spc = "on" /\ ~sout.present.done
    /\ sout' = [sout EXCEPT !.present =
                   SplitResult(getDomainAndEntry(SplitChallenge), PresentName(SplitChallenge))]
    /\ UNCHANGED <<rec, inv, last, sin, spc>>

\* CleanUp, main.go:172-174, on the challenge under test
CleanUpSplit ==
    /\ spc = "on" /\ ~sout.cleanup.done
    /\ sout' = [sout EXCEPT !.cleanup =
                   SplitResult(getDomainAndEntry(SplitChallenge), CleanUpName(SplitChallenge))]
    /\ UNCHANGED <<rec, inv, last, sin, spc>>

SplitNext == PresentSplit \/ CleanUpSplit

SplitSpec == SplitInit /\ [][SplitNext]_vars

(***************************************************************************)
(* Properties                                                              *)
(***************************************************************************)
Done(p) == inv[p].pc = "done"
Ok(p) == Done(p) /\ inv[p].err = ""
IsPresent(p) == inv[p].op = "Present"
IsCleanUp(p) == inv[p].op = "CleanUp"
CallsOf(p, fn) == {i \in DOMAIN inv[p].calls : inv[p].calls[i].fn = fn}
Count(p, fn) == Cardinality(CallsOf(p, fn))
Mutations(p) == Count(p, "create") + Count(p, "update") + Count(p, "delete")
\* q ran right after p on the same record, and nothing else touched the record
\* while either ran or in between
Followed(p, q) ==
    /\ p # q /\ Done(p) /\ inv[q].pc # "idle"
    /\ inv[q].prev = p /\ inv[p].alone /\ inv[q].alone

\* C1: from an absent record, two successive successful Present invocations
\* of the same challenge issue one create in total and no update; the second
\* issues its lookup alone and leaves the record as it was.
PresentIdempotent ==
    \A p \in Procs, q \in Procs :
        ( /\ Followed(p, q) /\ Ok(p) /\ Ok(q)
          /\ IsPresent(p) /\ IsPresent(q)
          /\ inv[p].ch = inv[q].ch
          /\ inv[p].pre = <<>> )
        => /\ Count(p, "create") + Count(q, "create") = 1
           /\ Count(p, "update") + Count(q, "update") = 0
           /\ Len(inv[q].calls) = 1 /\ inv[q].calls[1].fn = "lookup"
           /\ inv[q].post = inv[q].pre

\* C2: after a successful Present that nothing interleaved with, the record
\* holds exactly the challenge Key (in the provider's framing), whatever it
\* held before; every create or update of the invocation goes to the computed
\* (root, subdomain) with type TXT, TTL 300 and the single value Key.
PresentEstablishesKey ==
    \A p \in Procs :
        (Ok(p) /\ IsPresent(p) /\ inv[p].alone)
        => /\ inv[p].post = <<Quote(inv[p].ch.key)>>
           /\ \A i \in CallsOf(p, "create") \cup CallsOf(p, "update") :
                LET c == inv[p].calls[i]
                IN  /\ c.type = "TXT" /\ c.ttl = 300
                    /\ c.values = <<inv[p].ch.key>>
                    /\ <<c.root, c.name>> = inv[p].name

\* a successful Present, alone on a record that held other values, has updated it
PresentEstablishesKeyWitness ==
    \E p \in Procs :
        /\ Ok(p) /\ IsPresent(p) /\ inv[p].alone
        /\ inv[p].pre = <<Quote(K1), Quote(K2)>>
        /\ Count(p, "update") = 1
        /\ inv[p].post = <<Quote(inv[p].ch.key)>>

\* C3: a Present for the same zone and FQDN with another Key, right after a
\* successful Present, issues exactly one update and no create, and the update
\* carries the new value in quotes.
ChangedKeyUpdates ==
    \A p \in Procs, q \in Procs :
        ( /\ Followed(p, q) /\ Ok(p) /\ Done(q)
          /\ IsPresent(p) /\ IsPresent(q)
          /\ inv[p].ch.zone = inv[q].ch.zone /\ inv[p].ch.fqdn = inv[q].ch.fqdn
          /\ inv[p].ch.key # inv[q].ch.key )
        => /\ Count(q, "update") = 1
           /\ Count(q, "create") = 0
           /\ \A i \in CallsOf(q, "update") :
                inv[q].calls[i].values = <<Quote(inv[q].ch.key)>>

\* C4: CleanUp issues a delete exactly when its lookup finds the record; on an
\* absent record it succeeds without a delete, on a present one it issues one
\* delete(root, subdomain, TXT), and after a successful CleanUp that nothing
\* interleaved with the record is absent.
CleanUpDeletesIffPresent ==
    \A p \in Procs :
        (Done(p) /\ IsCleanUp(p) /\ inv[p].calls # <<>>)
        => /\ Count(p, "delete") <= 1
           /\ (Count(p, "delete") = 1
                <=> \E i \in CallsOf(p, "lookup") : inv[p].calls[i].res = "found")
           /\ \A i \in CallsOf(p, "delete") :
                LET c == inv[p].calls[i]
                IN  <<c.root, c.name>> = inv[p].name /\ c.type = "TXT"
           /\ (inv[p].alone /\ inv[p].pre = <<>>)
                => (inv[p].err = "" /\ Count(p, "delete") = 0)
           /\ (inv[p].alone /\ inv[p].pre # <<>>) => Count(p, "delete") = 1
           /\ (inv[p].alone /\ inv[p].err = "") => inv[p].post = <<>>

\* C5: a CleanUp never deletes a record whose value is the Key of another
\* challenge.
CleanUpOnlyOwnKey ==
    \A p \in Procs :
        IsCleanUp(p) =>
            \A i \in CallsOf(p, "delete") :
                inv[p].calls[i].res = "ok" =>
                    \A k \in Keys \ {inv[p].ch.key} : inv[p].calls[i].seen # <<Quote(k)>>

Malformed(ch) == ch.cfg.raw = "malformed"
SecretMissing(ch) == ~Malformed(ch) /\ <<ch.ns, ch.cfg.name>> \notin DOMAIN Secrets
KeyMissing(ch) ==
    /\ ~Malformed(ch) /\ ~SecretMissing(ch)
    /\ ch.cfg.key \notin Secrets[<<ch.ns, ch.cfg.name>>]
Elems(seq) == {seq[i] : i \in DOMAIN seq}

\* C7: with a malformed config, a secret that cannot be fetched or a key that
\* the secret lacks, Present and CleanUp return an error and issue no provider
\* call; for the missing key the error is "key not found" and names the
\* secret and its namespace.
CredentialFailureAborts ==
    \A p \in Procs :
        ( /\ inv[p].pc # "idle"
          /\ Malformed(inv[p].ch) \/ SecretMissing(inv[p].ch) \/ KeyMissing(inv[p].ch) )
        => /\ Done(p) /\ inv[p].err # ""
           /\ inv[p].calls = <<>>
           /\ KeyMissing(inv[p].ch)
                => /\ inv[p].cause = "key not found"
                   /\ {inv[p].ch.ns, inv[p].ch.cfg.name} \subseteq Elems(inv[p].ref)

\* both handlers have been refused for a key the secret lacks
CredentialFailureAbortsWitness ==
    \E p \in Procs, q \in Procs :
        /\ IsPresent(p) /\ IsCleanUp(q) /\ Done(p) /\ Done(q)
        /\ KeyMissing(inv[p].ch) /\ KeyMissing(inv[q].ch)
        /\ inv[p].cause = "key not found" /\ inv[q].cause = "key not found"

\* C8: an invocation issues at most one lookup and at most one mutating call,
\* and a provider call that fails otherwise than by a not-found lookup is the
\* invocation's last call and makes it return an error.
FailuresSurfaced ==
    \A p \in Procs :
        /\ Count(p, "lookup") <= 1
        /\ Mutations(p) <= 1
        /\ \A i \in DOMAIN inv[p].calls :
             inv[p].calls[i].res = "failed"
                => /\ i = Len(inv[p].calls)
                   /\ Done(p) => inv[p].err # ""

\* C9: a provider call of one invocation leaves the record of every
\* invocation for another FQDN as it is.
DifferentSubdomainsIndependent ==
    [][\A p \in Procs, q \in Procs :
          ( /\ inv'[p].calls # inv[p].calls
            /\ inv[q].pc \notin {"idle", "panic"} /\ inv[q].name # NoName
            /\ inv[q].ch.fqdn # inv[p].ch.fqdn )
          => rec'[inv[q].name] = rec[inv[q].name]]_vars

\* two Present invocations for one name both saw the record absent and both
\* issued create: the second create met the record the first had made
BothCreate ==
    \E p \in Procs, q \in Procs :
        /\ p # q /\ IsPresent(p) /\ IsPresent(q)
        /\ inv[p].name = inv[q].name
        /\ Len(inv[p].calls) = 2 /\ Len(inv[q].calls) = 2
        /\ inv[p].calls[1].res = "notfound" /\ inv[q].calls[1].res = "notfound"
        /\ inv[p].calls[2].fn = "create" /\ inv[p].calls[2].res = "ok"
        /\ inv[p].calls[2].seen = <<>>
        /\ inv[q].calls[2].fn = "create"
        /\ inv[q].calls[2].seen = <<Quote(inv[p].ch.key)>>

Splits == {sp \in {sout.present, sout.cleanup} : sp.done}
ZoneLabels == Len(sin.zl)

\* C6: for a zone of two labels or more and an FQDN ending with it, entry is
\* the FQDN less the zone less a trailing dot, domain the zone less its dot,
\* root the last two labels of the domain, subdomain the entry and then the
\* labels of the domain before the root, dot-joined; and Present and CleanUp
\* get the same.
SplitAsSpecified ==
    /\ \A sp \in Splits :
         ZoneLabels >= 2 =>
            LET entry == Join(sin.el, <<DOT>>)
                n == ZoneLabels
            IN  /\ sp.entry = entry
                /\ sp.domain = Join(sin.zl, <<DOT>>)
                /\ ~sp.panic
                /\ sp.root = sin.zl[n - 1] \o <<DOT>> \o sin.zl[n]
                /\ sp.sub = Join(<<entry>> \o SubSeq(sin.zl, 1, n - 2), <<DOT>>)
                /\ n = 2 => sp.sub = sp.entry
    /\ (sout.present.done /\ sout.cleanup.done) => sout.present = sout.cleanup

\* a three-label zone under a two-label entry, split by both handlers
SplitAsSpecifiedWitness ==
    /\ sout.present.done /\ sout.cleanup.done
    /\ ZoneLabels = 3 /\ Len(sin.el) = 2 /\ sin.dot
    /\ sout.present.sub = sin.el[1] \o <<DOT>> \o sin.el[2] \o <<DOT>> \o sin.zl[1]

\* C10: for a zone of two labels or more and an FQDN <entry>.<zone> with a
\* non-empty entry, subdomain "." root is the FQDN less its trailing dot, and
\* Present and CleanUp compute the same (root, subdomain).
SplitRoundTrip ==
    /\ \A sp \in Splits :
         (ZoneLabels >= 2 /\ sin.el # <<>> /\ sin.dot)
            => sp.sub \o <<DOT>> \o sp.root = SubSeq(sin.fqdn, 1, Len(sin.fqdn) - 1)
    /\ (sout.present.done /\ sout.cleanup.done)
         => NameOf(sout.present) = NameOf(sout.cleanup)

\* both handlers have split <entry>.<three-label zone> and name the FQDN
SplitRoundTripWitness ==
    /\ sout.present.done /\ sout.cleanup.done
    /\ ZoneLabels = 3 /\ sin.el # <<>> /\ sin.dot
    /\ NameOf(sout.present) = NameOf(sout.cleanup)
    /\ Len(sout.cleanup.sub) + 1 + Len(sout.cleanup.root) = Len(sin.fqdn) - 1

(***************************************************************************)
(* What is left of C1, C3 and C4 when every lookup is answered (found or   *)
(* not found): their violations rest on the handlers taking a failed       *)
(* lookup for an absent record (C8), and C3's also on the value the update *)
(* carries, which is the Key as given, not quoted.                         *)
(***************************************************************************)
LookupsAnswered(p) ==
    \A i \in CallsOf(p, "lookup") : inv[p].calls[i].res # "failed"

PresentIdempotentWhenAnswered ==
    \A p \in Procs, q \in Procs :
        ( /\ Followed(p, q) /\ Ok(p) /\ Ok(q)
          /\ IsPresent(p) /\ IsPresent(q)
          /\ inv[p].ch = inv[q].ch
          /\ inv[p].pre = <<>>
          /\ LookupsAnswered(p) /\ LookupsAnswered(q) )
        => /\ Count(p, "create") + Count(q, "create") = 1
           /\ Count(p, "update") + Count(q, "update") = 0
           /\ Len(inv[q].calls) = 1 /\ inv[q].calls[1].fn = "lookup"
           /\ inv[q].post = inv[q].pre

ChangedKeyUpdatesWhenAnswered ==
    \A p \in Procs, q \in Procs :
        ( /\ Followed(p, q) /\ Ok(p) /\ Done(q)
          /\ IsPresent(p) /\ IsPresent(q)
          /\ inv[p].ch.zone = inv[q].ch.zone /\ inv[p].ch.fqdn = inv[q].ch.fqdn
          /\ inv[p].ch.key # inv[q].ch.key
          /\ LookupsAnswered(q) )
        => /\ Count(q, "update") = 1
           /\ Count(q, "create") = 0
           /\ \A i \in CallsOf(q, "update") :
                /\ inv[q].calls[i].values = <<inv[q].ch.key>>
                /\ inv[q].calls[i].res = "ok" => inv[q].post = <<Quote(inv[q].ch.key)>>

CleanUpDeletesIffPresentWhenAnswered ==
    \A p \in Procs :
        (Done(p) /\ IsCleanUp(p) /\ inv[p].calls # <<>> /\ LookupsAnswered(p))
        => /\ Count(p, "delete") <= 1
           /\ (Count(p, "delete") = 1
                <=> \E i \in CallsOf(p, "lookup") : inv[p].calls[i].res = "found")
           /\ (inv[p].alone /\ inv[p].pre = <<>>)
                => (inv[p].err = "" /\ Count(p, "delete") = 0)
           /\ (inv[p].alone /\ inv[p].pre # <<>>) => Count(p, "delete") = 1
           /\ (inv[p].alone /\ inv[p].err = "") => inv[p].post = <<>>

====
